---------------------------- MODULE Spec2Model ----------------------------
(***************************************************************************)
(* Model of fpp_sle/fpp/get_arrival_times.py: the check_types decorator,   *)
(* from_cox_process and from_inhomogeneous_poisson_process.                *)
(*                                                                         *)
(* A call is a positional argument tuple `args` plus the keyword          *)
(* `same_shape`.  Python values are records [ty, arr, num]: `ty` is the    *)
(* runtime type, `arr` the elements of an array-like, `num` a scalar (or   *)
(* the index of a callable).  Real numbers are modelled on an integer      *)
(* grid; an average rate is kept doubled so that the `/ 2.0` of the        *)
(* callable branch stays integral.                                         *)
(*                                                                         *)
(* The shared generator np.random is a stream of raw draws that is         *)
(* revealed lazily.  Two invocations (Runs) may be started from the same   *)
(* generator state: both read the same stream, each with its own cursor.   *)
(***************************************************************************)
EXTENDS Integers, Sequences, FiniteSets, TLC

\* ------------------------------------------------------------------ bounds
MaxRateLen == 4
MaxPulses == 2
MaxRounds == 2

\* Resolution of a uniform draw on [0, 1): the draw u stands for u / Grid.
Grid == 4

Runs == {1, 2}

\* ------------------------------------------------------------------ values
NdArray(s) == [ty |-> "ndarray", arr |-> s, num |-> 0]
Fn(k) == [ty |-> "callable", arr |-> <<>>, num |-> k]
IntV(k) == [ty |-> "int", arr |-> <<>>, num |-> k]
BoolV(k) == [ty |-> "bool", arr |-> <<>>, num |-> k]
FloatV(k) == [ty |-> "float", arr |-> <<>>, num |-> k]
ListV(s) == [ty |-> "list", arr |-> s, num |-> 0]
None == [ty |-> "NoneType", arr |-> <<>>, num |-> 0]

SeqsUpTo(S, n) == UNION {[1..k -> S] : k \in 0..n}

RateVals == {-1, 0, 1}
RateArrays == SeqsUpTo(RateVals, MaxRateLen)
\* The callables: t |-> 0, t |-> 1, t |-> t.
RateFns == {0, 1, 2}
TimeAxes == {<<5>>, <<0, 1>>, <<1, 3>>, <<0, 1, 2>>}

RateArgs == {NdArray(s) : s \in RateArrays} \cup {Fn(k) : k \in RateFns}
              \cup {ListV(<<1, 1>>)}
TimesArgs == {NdArray(s) : s \in TimeAxes} \cup {ListV(<<0, 1>>)}
PulsesArgs == {IntV(k) : k \in -1..MaxPulses} \cup {FloatV(1)}

IppCalls ==
  {[func |-> "from_inhomogeneous_poisson_process", args |-> <<r, t, p>>, same_shape |-> s] :
     r \in RateArgs, t \in TimesArgs, p \in PulsesArgs, s \in BOOLEAN}

\* from_cox_process(rate, same_shape, times, mu) with a valid rate: calls that
\* follow the declared signature, and calls whose first three arguments are
\* (rate, array, int).
CoxRates == {NdArray(<<1, 1>>), NdArray(<<0, 0>>), Fn(0), Fn(1)}
CoxCalls ==
  {[func |-> "from_cox_process", args |-> <<r, BoolV(b), NdArray(<<0, 1>>), FloatV(1)>>,
    same_shape |-> FALSE] : r \in CoxRates, b \in {0, 1}}
  \cup
  {[func |-> "from_cox_process", args |-> <<r, NdArray(<<0, 1>>), p, FloatV(1)>>,
    same_shape |-> FALSE] : r \in CoxRates, p \in {IntV(1), IntV(2)}}

Calls == IppCalls \cup CoxCalls

\* ------------------------------------------------------------------ state
VARIABLES
  call,           \* the invocation: func, args, same_shape (fixed)
  pc,             \* per run: "idle", "call", "body", "loop", "done", "error"
  rate,           \* per run: the local `rate` of the body (after alignment)
  arrival_times,  \* per run: the candidate pool
  result,         \* per run: the returned array
  err,            \* per run: the exception raised, "" when none
  rounds,         \* per run: loop iterations run, saturating at MaxRounds
  drew,           \* per run: has np.random been read
  pos,            \* per run: cursor into stream
  stream          \* raw draws of np.random not yet read by every run

vars == <<call, pc, rate, arrival_times, result, err, rounds, drew, pos, stream>>


\* ------------------------------------------------------------ numpy helpers
RECURSIVE np_sum(_)
np_sum(s) == IF s = <<>> THEN 0 ELSE Head(s) + np_sum(Tail(s))

\* Mutant: only the first element is tested.
any_negative_first(a) == Len(a) > 0 /\ a[1] < 0

\* any(a < 0)
any_negative(a) == \E i \in 1..Len(a) : a[i] < 0

\* a[mask]: the elements of a whose mask entry is true, in order.
RECURSIVE BoolIndex(_, _)
BoolIndex(a, mask) ==
  IF a = <<>> THEN <<>>
  ELSE (IF Head(mask) THEN <<Head(a)>> ELSE <<>>) \o BoolIndex(Tail(a), Tail(mask))

RECURSIVE Insert(_, _)
Insert(x, s) ==
  IF s = <<>> THEN <<x>>
  ELSE IF x <= Head(s) THEN <<x>> \o s ELSE <<Head(s)>> \o Insert(x, Tail(s))

\* Mutant: the sort is left out.
ndarray_sort_noop(s) == s

\* ndarray.sort()
RECURSIVE ndarray_sort(_)
ndarray_sort(s) == IF s = <<>> THEN <<>> ELSE Insert(Head(s), ndarray_sort(Tail(s)))

\* Mutant: the round's arrivals replace the pool.
np_concatenate_drop(a, b) == b

\* np.concatenate((a, b))
np_concatenate(a, b) == a \o b

\* Shapes (m,) and (n,) broadcast in an elementwise operation.
Broadcasts(m, n) == m = n \/ m = 1 \/ n = 1

\* --------------------------------------------------------------- decorator
IsNdarray(a) == a.ty = "ndarray"
IsCallable(a) == a.ty = "callable"
\* isinstance(x, int): bool is a subclass of int.
IsInt(a) == a.ty \in {"int", "bool"}

\* The checks of check_types_wrapper: the exception raised, "" when func is called.
check_types(a) ==
  IF ~IsNdarray(a[1]) /\ ~IsCallable(a[1]) THEN "TypeError"
  ELSE IF IsNdarray(a[1]) /\ any_negative(a[1].arr) THEN "ValueError"
  ELSE IF ~IsNdarray(a[2]) THEN "TypeError"
  ELSE IF ~IsInt(a[3]) THEN "TypeError"
  ELSE ""

\* ------------------------------------------ from_inhomogeneous_poisson_process
\* int(len(rate) / len(times))
new_length(r, times) == Len(r) \div Len(times)
nearest_multiple(r, times) == Len(times) * new_length(r, times)
\* rate[:nearest_multiple].reshape((len(times), new_length))
reshaped(r, times) ==
  LET b == new_length(r, times)
      cut == SubSeq(r, 1, nearest_multiple(r, times))
  IN  [i \in 1..Len(times) |-> SubSeq(cut, (i - 1) * b + 1, i * b)]
\* Mutant: the blocks are averaged, as the comment above the code says.
AlignRate_mean(r, times, same) ==
  IF IsNdarray(r) /\ ~same
  THEN LET rows == reshaped(r.arr, times)
           b == new_length(r.arr, times)
       IN  NdArray([i \in 1..Len(times) |->
                      IF b = 0 THEN 0 ELSE np_sum(rows[i]) \div b])
  ELSE r

\* The `rate` the loop uses: lines 204-212.
AlignRate(r, times, same) ==
  IF IsNdarray(r) /\ ~same
  THEN LET rows == reshaped(r.arr, times)
       IN  NdArray([i \in 1..Len(times) |-> np_sum(rows[i])])
  ELSE r

\* The callables of RateFns, evaluated at one time value.
RateFn(k, t) == CASE k = 0 -> 0 [] k = 1 -> 1 [] OTHER -> t

delta(times) == times[2] - times[1]

\* avg_rate, doubled: 2 * rate[:] on the array path, rate(times) +
\* rate(times + delta) on the callable path.
avg_rate(r, times) ==
  IF IsNdarray(r) THEN [i \in 1..Len(r.arr) |-> 2 * r.arr[i]]
  ELSE [i \in 1..Len(times) |->
          RateFn(r.num, times[i]) + RateFn(r.num, times[i] + delta(times))]

\* 1 - exp(-x) on the grid, x given doubled: the number of draws u in
\* 0..Grid-1 with u / Grid < 1 - exp(-x2 / 2).
\* 1 - exp(-1/2) = 0.39, 1 - exp(-1) = 0.63, 1 - exp(-3/2) = 0.78.
ProbLevel(x2) == CASE x2 <= 0 -> 0 [] x2 = 1 -> 2 [] x2 = 2 -> 3 [] OTHER -> Grid

avg_prob(r, times) ==
  LET a == avg_rate(r, times)
  IN  [i \in 1..Len(a) |-> ProbLevel(a[i] * delta(times))]

\* Mutant: <= for <.
Less_or_equal(u, p) == u <= p

\* rand_throws < avg_prob, one draw per time step
Less(u, p) == u < p
Accept(rand_throws, prob) ==
  [i \in 1..Len(rand_throws) |->
     Less(rand_throws[i], prob[IF Len(prob) = 1 THEN 1 ELSE i])]

\* Mutant: the accepted positions instead of the accepted time values.
Accepted_indices(times, rand_throws, prob) ==
  BoolIndex([i \in 1..Len(times) |-> i - 1], Accept(rand_throws, prob))

\* times[rand_throws < avg_prob]
Accepted(times, rand_throws, prob) == BoolIndex(times, Accept(rand_throws, prob))

\* Mutant: the whole pool is returned.
Choice_whole(a, idx) == a

\* np.random.choice(a, size=k) given its k index draws (0-based).
Choice(a, idx) == [i \in 1..Len(idx) |-> a[idx[i] + 1]]

\* ------------------------------------------------------------- np.random
Times == call.args[2].arr
total_pulses == call.args[3].num

Min2(a, b) == IF a <= b THEN a ELSE b

\* A run reads ahead of the stream only when no other started run is behind it.
CanDraw(r) == \A q \in Runs \ {r} : pc[q] # "idle" => pos[q] >= pos[r]

\* Mutant: every read is a fresh value, whatever the generator state.
RandomState_unseeded(r, i, range, f) == f[i]

\* The i-th raw draw a run reads next, as a value in 0..range-1: the stream's
\* when it is already revealed, else the fresh value f[i].
RandomState(r, i, range, f) ==
  IF pos[r] + i <= Len(stream) THEN stream[pos[r] + i] % range ELSE f[i]

Fresh(r, k, range) ==
  {f \in [1..k -> 0..(range - 1)] : \A i \in 1..k : pos[r] + i <= Len(stream) => f[i] = 0}

Draws(r, k, range, f) == [i \in 1..k |-> RandomState(r, i, range, f)]

\* Run r has read the draws d: extend the stream by those that were fresh, move
\* the cursor, and forget the prefix every started run has read.
Consume(r, d) ==
  LET k == Len(d)
      old == Len(stream) - pos[r]
      ns == IF k > old THEN stream \o SubSeq(d, old + 1, k) ELSE stream
      np == [pos EXCEPT ![r] = @ + k]
      others == {np[q] : q \in {q \in Runs \ {r} : pc[q] # "idle"}}
      c == IF others = {} THEN np[r]
           ELSE Min2(np[r], CHOOSE m \in others : \A x \in others : m <= x)
  IN  /\ stream' = SubSeq(ns, c + 1, Len(ns))
      /\ pos' = [q \in Runs |-> IF pc[q] = "idle" THEN 0 ELSE np[q] - c]

Raise(r, e) ==
  /\ pc' = [pc EXCEPT ![r] = "error"]
  /\ err' = [err EXCEPT ![r] = e]

\* ----------------------------------------------------------------- actions
Init ==
  /\ call \in Calls
  /\ pc = [r \in Runs |-> IF r = 1 THEN "call" ELSE "idle"]
  /\ rate = [r \in Runs |-> None]
  /\ arrival_times = [r \in Runs |-> <<>>]
  /\ result = [r \in Runs |-> <<>>]
  /\ err = [r \in Runs |-> ""]
  /\ rounds = [r \in Runs |-> 0]
  /\ drew = [r \in Runs |-> FALSE]
  /\ pos = [r \in Runs |-> 0]
  /\ stream = <<>>

\* Lines 39-48: the decorator's wrapper, up to the call of func.
check_types_wrapper(r) ==
  /\ pc[r] = "call"
  /\ LET e == check_types(call.args)
     IN  IF e # "" THEN Raise(r, e)
         ELSE pc' = [pc EXCEPT ![r] = "body"] /\ err' = err
  /\ UNCHANGED <<call, rate, arrival_times, result, rounds, drew, pos, stream>>

\* Line 158.
from_cox_process(r) ==
  /\ pc[r] = "body"
  /\ call.func = "from_cox_process"
  /\ Raise(r, "NotImplementedError")
  /\ UNCHANGED <<call, rate, arrival_times, result, rounds, drew, pos, stream>>

\* Lines 204-214: rate alignment and the empty pool.
Align(r) ==
  /\ pc[r] = "body"
  /\ call.func = "from_inhomogeneous_poisson_process"
  /\ rate' = [rate EXCEPT ![r] = AlignRate(call.args[1], Times, call.same_shape)]
  /\ arrival_times' = [arrival_times EXCEPT ![r] = <<>>]
  /\ pc' = [pc EXCEPT ![r] = "loop"]
  /\ UNCHANGED <<call, result, err, rounds, drew, pos, stream>>

\* Lines 215-223: one iteration of the while loop.
Round(r) ==
  /\ pc[r] = "loop"
  /\ Len(arrival_times[r]) < total_pulses
  /\ IF Len(Times) < 2
     THEN \* times[1]: IndexError
          /\ Raise(r, "IndexError")
          /\ UNCHANGED <<arrival_times, rounds, drew, pos, stream>>
     ELSE /\ CanDraw(r)
          /\ \E f \in Fresh(r, Len(Times), Grid) :
               LET prob == avg_prob(rate[r], Times)
                   rand_throws == Draws(r, Len(Times), Grid, f)
               IN  /\ Consume(r, rand_throws)
                   /\ drew' = [drew EXCEPT ![r] = TRUE]
                   /\ IF ~Broadcasts(Len(prob), Len(Times))
                      THEN \* rand_throws < avg_prob: shapes do not broadcast
                           /\ Raise(r, "ValueError")
                           /\ UNCHANGED <<arrival_times, rounds>>
                      ELSE /\ arrival_times' =
                                [arrival_times EXCEPT ![r] =
                                   np_concatenate(@, Accepted(Times, rand_throws, prob))]
                           /\ rounds' = [rounds EXCEPT ![r] = Min2(@ + 1, MaxRounds)]
                           /\ UNCHANGED <<pc, err>>
  /\ UNCHANGED <<call, rate, result>>

\* Lines 224-226: the loop has ended; draw, sort, return.
Downsample(r) ==
  /\ pc[r] = "loop"
  /\ ~(Len(arrival_times[r]) < total_pulses)
  /\ IF Len(arrival_times[r]) = 0 /\ total_pulses # 0
     THEN \* np.random.choice: 'a' cannot be empty unless no samples are taken
          /\ Raise(r, "ValueError")
          /\ UNCHANGED <<result, drew, pos, stream>>
     ELSE /\ CanDraw(r)
          /\ \E f \in Fresh(r, total_pulses, Len(arrival_times[r])) :
               LET idx == Draws(r, total_pulses, Len(arrival_times[r]), f)
               IN  /\ Consume(r, idx)
                   /\ drew' = [drew EXCEPT ![r] = drew[r] \/ total_pulses > 0]
                   /\ result' = [result EXCEPT ![r] =
                                   ndarray_sort(Choice(arrival_times[r], idx))]
          /\ pc' = [pc EXCEPT ![r] = "done"]
          /\ err' = err
  /\ UNCHANGED <<call, rate, arrival_times, rounds>>

from_inhomogeneous_poisson_process(r) == Align(r) \/ Round(r) \/ Downsample(r)

Next ==
  \E r \in Runs :
    \/ check_types_wrapper(r)
    \/ from_cox_process(r)
    \/ from_inhomogeneous_poisson_process(r)

Spec == Init /\ [][Next]_vars

\* Two invocations with identical arguments, started from the same state of
\* np.random (the same stream, both cursors at its start).
InitTwin ==
  /\ call \in Calls
  /\ pc = [r \in Runs |-> "call"]
  /\ rate = [r \in Runs |-> None]
  /\ arrival_times = [r \in Runs |-> <<>>]
  /\ result = [r \in Runs |-> <<>>]
  /\ err = [r \in Runs |-> ""]
  /\ rounds = [r \in Runs |-> 0]
  /\ drew = [r \in Runs |-> FALSE]
  /\ pos = [r \in Runs |-> 0]
  /\ stream = <<>>

SpecTwin == InitTwin /\ [][Next]_vars

\* The scheduling the claims about termination assume: a started call keeps
\* running, and a round in which some step is accepted is eventually taken
\* whenever such a round stays possible (fairness of the uniform draws).
AcceptingRound ==
  \E r \in Runs : Round(r) /\ Len(arrival_times'[r]) > Len(arrival_times[r])

FairSpec == Spec /\ WF_vars(Next) /\ WF_vars(AcceptingRound)

\* ------------------------------------------------------------------ claims
IsIpp == call.func = "from_inhomogeneous_poisson_process"
IsCox == call.func = "from_cox_process"
Started == {r \in Runs : pc[r] # "idle"}
Terminal(r) == pc[r] \in {"done", "error"}
Range(s) == {s[i] : i \in 1..Len(s)}
Sorted(s) == \A i \in 1..(Len(s) - 1) : s[i] <= s[i + 1]
ArrayPath == IsNdarray(call.args[1])

\* C1: a call of from_inhomogeneous_poisson_process with a positive
\* total_pulses that returns, returns exactly total_pulses elements.
C1_Length ==
  \A r \in Started :
    (IsIpp /\ total_pulses > 0 /\ pc[r] = "done") => Len(result[r]) = total_pulses

\* A return after two rounds from a pool larger than total_pulses.
C1_Witness ==
  \E r \in Started :
    /\ IsIpp /\ pc[r] = "done" /\ total_pulses > 0
    /\ rounds[r] >= 2
    /\ Len(arrival_times[r]) > total_pulses

\* C2: the returned sequence is sorted in non-decreasing order.
C2_Sorted == \A r \in Started : (IsIpp /\ pc[r] = "done") => Sorted(result[r])

\* A return of two distinct values drawn from a pool that is not sorted.
C2_Witness ==
  \E r \in Started :
    /\ IsIpp /\ pc[r] = "done"
    /\ ~Sorted(arrival_times[r])
    /\ Len(result[r]) = 2 /\ result[r][1] < result[r][2]

\* C3: on the array-rate path every candidate in the pool and every returned
\* value is an element of times.
C3_Membership ==
  \A r \in Started :
    (IsIpp /\ ArrayPath) =>
      /\ Range(arrival_times[r]) \subseteq Range(Times)
      /\ Range(result[r]) \subseteq Range(Times)

\* A return on the array path over the axis (1, 3).
C3_Witness ==
  \E r \in Started :
    /\ IsIpp /\ ArrayPath /\ pc[r] = "done"
    /\ Times = <<1, 3>>
    /\ Range(result[r]) = {1, 3}

\* C4: a rate array with a negative element makes the call raise ValueError
\* before alignment, before the loop and before any random draw.
C4_NegativeRate ==
  \A r \in Started :
    (IsIpp /\ ArrayPath /\ (\E x \in Range(call.args[1].arr) : x < 0) /\ pc[r] # "call") =>
      /\ pc[r] = "error" /\ err[r] = "ValueError"
      /\ ~drew[r] /\ rounds[r] = 0
      /\ rate[r] = None
      /\ arrival_times[r] = <<>> /\ result[r] = <<>>

\* The rejected call: a negative element after a positive one, times an array,
\* total_pulses an integer.
C4_Witness ==
  \E r \in Started :
    /\ IsIpp /\ call.args[1] = NdArray(<<1, -1>>)
    /\ IsNdarray(call.args[2]) /\ call.args[3] = IntV(2)
    /\ pc[r] = "error"

\* C5: a total_pulses that is zero, negative or not an integer is rejected
\* before any computation: the call never passes the decorator's checks, never
\* returns, and its error is raised before alignment.
C5_PulsesValidated ==
  \A r \in Started :
    (IsIpp /\ ~(call.args[3].ty = "int" /\ total_pulses > 0)) =>
      /\ pc[r] # "done"
      /\ pc[r] # "loop"
      /\ rate[r] = None

\* C6: from_cox_process always ends in NotImplementedError.
C6_CoxNotImplemented ==
  \A r \in Started : (IsCox /\ Terminal(r)) => err[r] = "NotImplementedError"

\* C7: two invocations with identical arguments started from the same state of
\* np.random end alike: the same outcome, result, pool, number of rounds and
\* draws read; and no run reads more draws than a finished one did.
C7_Determinism ==
  \A r \in Started : \A q \in Started :
    (IsIpp /\ Terminal(q)) =>
      /\ pos[q] >= pos[r]
      /\ Terminal(r) =>
           /\ pc[r] = pc[q] /\ err[r] = err[q]
           /\ result[r] = result[q]
           /\ arrival_times[r] = arrival_times[q]
           /\ rounds[r] = rounds[q] /\ drew[r] = drew[q]
           /\ pos[r] = pos[q]

\* Both invocations returned two values after two rounds each.
C7_Witness ==
  /\ IsIpp
  /\ \A r \in Runs : pc[r] = "done" /\ rounds[r] >= 2 /\ Len(result[r]) = 2

\* The per-step rate the loop samples with is zero at every time step.
ZeroRate(r) ==
  /\ Len(Times) >= 2
  /\ IF IsNdarray(rate[r])
     THEN /\ Len(rate[r].arr) = Len(Times)
          /\ \A i \in 1..Len(Times) : rate[r].arr[i] = 0
     ELSE /\ IsCallable(rate[r])
          /\ \A i \in 1..Len(Times) :
               /\ RateFn(rate[r].num, Times[i]) = 0
               /\ RateFn(rate[r].num, Times[i] + delta(Times)) = 0

\* C8: with an all-zero per-step rate and total_pulses > 0 the call stays in
\* the loop with an empty pool: it neither returns nor raises.
C8_ZeroRateLoops ==
  \A r \in Started :
    (IsIpp /\ total_pulses > 0 /\ ZeroRate(r)) =>
      /\ pc[r] = "loop"
      /\ arrival_times[r] = <<>>
      /\ Len(arrival_times[r]) < total_pulses

\* Rounds have run on a rate that alignment collapsed to zeros although the
\* rate array given holds positive values.
C8_Witness ==
  \E r \in Started :
    /\ IsIpp /\ total_pulses > 0 /\ ZeroRate(r)
    /\ ArrayPath /\ ~call.same_shape /\ np_sum(call.args[1].arr) > 0
    /\ rounds[r] >= 2 /\ drew[r]

\* The sum of a[lo..hi], 0-based and inclusive.
RECURSIVE SumRange(_, _, _)
SumRange(a, lo, hi) == IF hi < lo THEN 0 ELSE a[hi + 1] + SumRange(a, lo, hi - 1)

PositiveStep(r) ==
  /\ total_pulses > 0
  /\ Len(Times) >= 2
  /\ LET a == avg_rate(rate[r], Times)
     IN  Broadcasts(Len(a), Len(Times)) /\ \E i \in 1..Len(a) : a[i] > 0

=============================================================================
